---- MODULE Spec2Model ----
(***************************************************************************)
(* Student registration and tracking: the national-ID validator            *)
(* (lib/utils.ts), the store services (lib/database.ts), the tracking view *)
(* and the registration form (components/TrackingSystem.tsx) and the       *)
(* hosting route (App.tsx).                                                *)
(*                                                                         *)
(* Strings the code inspects character by character (identity numbers,     *)
(* names) are sequences of one-character strings.  A JavaScript number is  *)
(* a natural number or NaN.                                                *)
(***************************************************************************)
EXTENDS Integers, Sequences, FiniteSets, TLC

VARIABLES
    \* ---- validator harness (SpecValidate)
    vInput,             \* the string handed to validateNationalId
    vCalled,            \* whether validateNationalId has been applied
    vResult,            \* what it returned
    \* ---- remote store
    students,           \* table students
    expected,           \* table expected_students
    nextStudentId,      \* students.id SERIAL
    nextExpectedId,     \* expected_students.id SERIAL
    \* ---- hosting route (App.tsx)
    hostedInApp,        \* TrackingSystem rendered by AppContent (key, onDataUpdated)
    refreshTrigger,
    \* ---- TrackingSystem component state
    isUploading,
    uploadedStudents,
    unregisteredStudents,
    currentSessionId,
    isComparing,
    toast,              \* the last toast the view showed (UIUtils.showToast): type, message
    \* ---- handleFileUpload in flight
    uplPc,
    uplStudents,        \* expectedStudents (local)
    uplErrors,          \* errors (local)
    uplSession,         \* sessionId (local)
    nextSession,        \* UIUtils.generateSessionId: a fresh identifier per call
    \* ---- handleCompareData in flight
    cmpPc,
    cmpSession,         \* currentSessionId as captured by the handler
    cmpExpected,        \* expectedStudents (local of the service call)
    cmpRegIds,          \* registeredNationalIds (local of the service call)
    cmpIdx,             \* position of the for-of loop
    \* ---- StudentForm instances (one per browser session)
    formPc,
    formData,
    isSubmitting,
    formOutcome,
    formExists,         \* exists of validateForm: what checkNationalIdExists answered
    \* ---- the browser (Date.now, localStorage, location)
    now,                \* Date.now(), milliseconds
    localStorage,       \* the item stored under AUTH_STORAGE_KEY
    storageFull,        \* localStorage.setItem throws (quota exceeded)
    pathname,           \* location.pathname, the route React Router matches
    \* ---- AuthProvider state
    isAuthenticated,
    isLoading,
    user,
    \* ---- login in flight
    loginPc,
    loginIsLoading,     \* isLoading of the Login form
    loginArgs,          \* username, password as passed to login
    loginReturned       \* what the last call of login resolved to

vvars == <<vInput, vCalled, vResult>>
storeVars == <<students, expected, nextStudentId, nextExpectedId>>
hostVars == <<hostedInApp, refreshTrigger>>
viewVars == <<isUploading, uploadedStudents, unregisteredStudents, currentSessionId, isComparing, toast>>
uplVars == <<uplPc, uplStudents, uplErrors, uplSession, nextSession>>
cmpVars == <<cmpPc, cmpSession, cmpExpected, cmpRegIds, cmpIdx>>
formVars == <<formPc, formData, isSubmitting, formOutcome, formExists>>
browserVars == <<now, localStorage, storageFull, pathname>>
providerVars == <<isAuthenticated, isLoading, user>>
loginVars == <<loginPc, loginIsLoading, loginArgs, loginReturned>>
authVars == <<browserVars, providerVars, loginVars>>
vars == <<vvars, storeVars, hostVars, viewVars, uplVars, cmpVars, formVars, authVars>>

(***************************************************************************)
(* JavaScript numbers and characters                                       *)
(***************************************************************************)
NaN == -1

Digits == <<"0", "1", "2", "3", "4", "5", "6", "7", "8", "9">>

DigitChars == {Digits[i] : i \in 1..10}

\* String(...)[i] with a 0-based index: undefined beyond the end
CharAt(s, i) == IF i + 1 <= Len(s) THEN s[i + 1] ELSE "undefined"

\* parseInt of one character: its digit value, NaN for anything else
parseInt(c) ==
    IF c \in DigitChars THEN (CHOOSE i \in 1..10 : Digits[i] = c) - 1 ELSE NaN

JsAdd(a, b) == IF a = NaN \/ b = NaN THEN NaN ELSE a + b

JsSub(a, b) == IF a = NaN \/ b = NaN THEN NaN ELSE a - b

JsMul(a, b) == IF a = NaN \/ b = NaN THEN NaN ELSE a * b

JsMod(a, m) == IF a = NaN THEN NaN ELSE a % m

JsLt(a, b) == a # NaN /\ b # NaN /\ a < b

JsStrictEqAtMost(a, b) == a # NaN /\ b # NaN /\ a <= b

JsStrictEq(a, b) == a # NaN /\ b # NaN /\ a = b

(***************************************************************************)
(* ValidationUtils.validateNationalId                                      *)
(***************************************************************************)
\* /^(\d)\1{9}$/ : ten characters, all the same decimal digit
AllSameDigitsMutant(s) == FALSE

AllSameDigits(s) ==
    /\ Len(s) = 10
    /\ s[1] \in DigitChars
    /\ \A i \in 1..10 : s[i] = s[1]

\* the length guard of line 4
WrongLengthMutant(s) == Len(s) = 0

WrongLength(s) == Len(s) = 0 \/ Len(s) # 10

\* the weight of digit i (0-based) in the checksum
WeightMutant(i) == 11 - i

Weight(i) == 10 - i

RECURSIVE ChecksumLoop(_, _, _)
\* for (let i = 0; i < 9; i++) sum += parseInt(nationalId[i]) * (10 - i)
ChecksumLoop(nationalId, i, sum) ==
    IF i < 9
    THEN ChecksumLoop(nationalId, i + 1,
                      JsAdd(sum, JsMul(parseInt(CharAt(nationalId, i)), Weight(i))))
    ELSE sum

validateNationalId(nationalId) ==
    IF WrongLength(nationalId) THEN FALSE
    ELSE IF AllSameDigits(nationalId) THEN FALSE
    ELSE LET sum == ChecksumLoop(nationalId, 0, 0)
             remainder == JsMod(sum, 11)
             checkDigit == parseInt(CharAt(nationalId, 9))
         IN  IF JsLt(remainder, 2)
             THEN JsStrictEq(checkDigit, remainder)
             ELSE JsStrictEq(checkDigit, JsSub(11, remainder))

(***************************************************************************)
(* ValidationUtils.sanitizeInput, isValidClass; the row loop of            *)
(* handleFileUpload                                                        *)
(***************************************************************************)
RECURSIVE TrimLeft(_)
TrimLeft(s) == IF s # <<>> /\ Head(s) = " " THEN TrimLeft(Tail(s)) ELSE s

RECURSIVE TrimRight(_)
TrimRight(s) ==
    IF s # <<>> /\ s[Len(s)] = " " THEN TrimRight(SubSeq(s, 1, Len(s) - 1)) ELSE s

RECURSIVE CollapseSpaces(_)
\* replace(/\s+/g, ' ')
CollapseSpaces(s) ==
    IF Len(s) < 2 THEN s
    ELSE IF s[1] = " " /\ s[2] = " " THEN CollapseSpaces(Tail(s))
    ELSE <<s[1]>> \o CollapseSpaces(Tail(s))

\* input.trim().replace(/\s+/g, ' ')
sanitizeInput(input) == CollapseSpaces(TrimRight(TrimLeft(input)))

validClasses == {"701", "702", "703", "801", "802", "803", "804", "805", "806", "807"}

isValidClass(className) == className \in validClasses

\* String(...).replace(/\D/g, '')
StripNonDigits(s) == SelectSeq(s, LAMBDA c : c \in DigitChars)

\* The outcome of one spreadsheet row (lines 43-77).  A row carries the four
\* cell values the alias chains of lines 45-48 select ("" for a missing
\* cell); numericName marks a first-name cell holding a number, on which
\* sanitizeInput throws.
RowOutcome(row) ==
    LET firstName == row.firstName
        lastName == row.lastName
        nationalId == StripNonDigits(row.nationalId)
        className == row.className
    IN  IF firstName = <<>> \/ lastName = <<>> \/ nationalId = <<>> \/ className = ""
        THEN [kind |-> "missing"]
        ELSE IF Len(nationalId) # 10 \/ ~validateNationalId(nationalId)
        THEN [kind |-> "identity"]
        ELSE IF ~isValidClass(className)
        THEN [kind |-> "class"]
        ELSE IF row.numericName
        THEN [kind |-> "processing"]
        ELSE [kind |-> "ok",
              student |-> [first_name |-> sanitizeInput(firstName),
                           last_name |-> sanitizeInput(lastName),
                           national_id |-> nationalId,
                           class_name |-> className,
                           is_registered |-> FALSE]]

RECURSIVE ProcessRowsAbort(_, _, _, _)
\* the loop left at the first row error
ProcessRowsAbort(excelData, index, expectedStudents, errors) ==
    IF index >= Len(excelData)
    THEN [expectedStudents |-> expectedStudents, errors |-> errors]
    ELSE IF RowOutcome(excelData[index + 1]).kind = "ok"
    THEN ProcessRowsAbort(excelData, index + 1,
                          Append(expectedStudents, RowOutcome(excelData[index + 1]).student),
                          errors)
    ELSE [expectedStudents |-> expectedStudents,
          errors |-> Append(errors, [row |-> index + 2,
                                     kind |-> RowOutcome(excelData[index + 1]).kind])]

RECURSIVE ProcessRows(_, _, _, _)
\* excelData.forEach((row, index) => ...): expectedStudents and errors
ProcessRows(excelData, index, expectedStudents, errors) ==
    IF index >= Len(excelData)
    THEN [expectedStudents |-> expectedStudents, errors |-> errors]
    ELSE LET out == RowOutcome(excelData[index + 1])
         IN  IF out.kind = "ok"
             THEN ProcessRows(excelData, index + 1,
                              Append(expectedStudents, out.student), errors)
             ELSE ProcessRows(excelData, index + 1, expectedStudents,
                              Append(errors, [row |-> index + 2, kind |-> out.kind]))

(***************************************************************************)
(* Harness of validateNationalId: the strings it is applied to             *)
(***************************************************************************)
TailLen == 3

MaxExtra == 1

\* leading characters of the ten-character inputs; "x" is a non-digit
Prefixes ==
    { <<"0", "4", "9", "9", "3", "7", "0">>,
      <<"1", "2", "3", "4", "5", "6", "7">>,
      <<"x", "4", "9", "9", "3", "7", "0">>,
      <<"0", "4", "9", "x", "3", "7", "0">> }

TailChars == DigitChars \cup {"x"}

Identical == { [i \in 1..10 |-> d] : d \in DigitChars }

TenChars ==
    { SubSeq(p, 1, 10 - TailLen) \o t : p \in Prefixes, t \in [1..TailLen -> TailChars] }
        \cup Identical

Inputs ==
    TenChars
        \cup { SubSeq(s, 1, k) : s \in TenChars, k \in 0..9 }
        \cup { s \o [i \in 1..k |-> "0"] : s \in TenChars, k \in 1..MaxExtra }

(***************************************************************************)
(* The state outside the validator harness, at rest                        *)
(***************************************************************************)
NoSession == 0

\* UIUtils.showToast(message, type); before the first toast: none
Toast(type, message) == [type |-> type, message |-> message]

NoToast == Toast("none", "none")

Forms == {1, 2}

EmptyForm ==
    [national_id |-> <<>>, first_name |-> <<>>, last_name |-> <<>>, father_name |-> <<>>,
     class_name |-> "", father_phone |-> <<>>, mother_phone |-> <<>>, student_phone |-> <<>>]

InitStore ==
    /\ students = {}
    /\ expected = {}
    /\ nextStudentId = 1
    /\ nextExpectedId = 1

\* useState initial values of TrackingSystem (lines 12-16)
InitView ==
    /\ isUploading = FALSE
    /\ uploadedStudents = <<>>
    /\ unregisteredStudents = <<>>
    /\ currentSessionId = NoSession
    /\ isComparing = FALSE
    /\ toast = NoToast

InitHandlers ==
    /\ uplPc = "idle"
    /\ uplStudents = <<>>
    /\ uplErrors = <<>>
    /\ uplSession = NoSession
    /\ nextSession = 1
    /\ cmpPc = "idle"
    /\ cmpSession = NoSession
    /\ cmpExpected = <<>>
    /\ cmpRegIds = {}
    /\ cmpIdx = 0

\* useState initial values of StudentForm (lines 354-370)
InitForms ==
    /\ formPc = [f \in Forms |-> "idle"]
    /\ formData = [f \in Forms |-> EmptyForm]
    /\ isSubmitting = [f \in Forms |-> FALSE]
    /\ formOutcome = [f \in Forms |-> "none"]
    /\ formExists = [f \in Forms |-> "none"]

(***************************************************************************)
(* Administrator authentication (AuthContext.tsx): values                  *)
(***************************************************************************)
ADMIN_CREDENTIALS == [username |-> "admin", password |-> "iran@1404"]

\* sessionDuration of checkAuthStatus, milliseconds
sessionDuration == 24 * 60 * 60 * 1000

\* localStorage.getItem(AUTH_STORAGE_KEY): null, a text JSON.parse rejects, or
\* the text of an object {isAuth, username, timestamp}
AuthRecord(isAuth, username, timestamp) ==
    [kind |-> "record", isAuth |-> isAuth, username |-> username, timestamp |-> timestamp]
Absent == [kind |-> "absent", isAuth |-> FALSE, username |-> "", timestamp |-> 0]
Garbage == [kind |-> "garbage", isAuth |-> FALSE, username |-> "", timestamp |-> 0]

\* user: { username: string } | null
NullUser == [isNull |-> TRUE, username |-> ""]
UserAbsent(username) == [isNull |-> TRUE, username |-> ""]

User(username) == [isNull |-> FALSE, username |-> username]

NoArgs == [username |-> "", password |-> ""]

\* The administrator signed in at time 0 and is looking at the tracking page:
\* the situation in which the upload and comparison handlers run.
InitSignedIn ==
    /\ now = 0
    /\ localStorage = AuthRecord(TRUE, ADMIN_CREDENTIALS.username, 0)
    /\ storageFull = FALSE
    /\ pathname = "/tracking"
    /\ isAuthenticated = TRUE
    /\ isLoading = FALSE
    /\ user = User(ADMIN_CREDENTIALS.username)
    /\ loginPc = "idle"
    /\ loginIsLoading = FALSE
    /\ loginArgs = NoArgs
    /\ loginReturned = "none"

(***************************************************************************)
(* SpecValidate: validateNationalId applied to one input                   *)
(***************************************************************************)
InitValidate ==
    /\ vInput \in Inputs
    /\ vCalled = FALSE
    /\ vResult = FALSE
    /\ InitStore /\ InitView /\ InitHandlers /\ InitForms /\ InitSignedIn
    /\ hostedInApp = FALSE
    /\ refreshTrigger = 0

Validate ==
    /\ ~vCalled
    /\ vCalled' = TRUE
    /\ vResult' = validateNationalId(vInput)
    /\ UNCHANGED <<authVars, vInput, storeVars, hostVars, viewVars, uplVars, cmpVars,
                   formVars>>

NextValidate == Validate

SpecValidate == InitValidate /\ [][NextValidate]_vars

(***************************************************************************)
(* The claims about validateNationalId                                     *)
(***************************************************************************)
IsTenDigits(s) == Len(s) = 10 /\ \A i \in 1..10 : s[i] \in DigitChars

DigitValueOf(c) == CHOOSE n \in 0..9 : Digits[n + 1] = c

RECURSIVE WeightedSum(_, _)
\* sum over i in 0..k of digit[i] * (10 - i)
WeightedSum(s, k) ==
    IF k < 0 THEN 0 ELSE DigitValueOf(s[k + 1]) * (10 - k) + WeightedSum(s, k - 1)

ExpectedCheckDigit(s) ==
    LET r == WeightedSum(s, 8) % 11 IN IF r < 2 THEN r ELSE 11 - r

Fixture == <<"0", "4", "9", "9", "3", "7", "0", "8", "9", "9">>

\* C3: for every 10-digit string whose digits are not all identical,
\* validateNationalId returns true iff the 10th digit equals the expected
\* check digit (remainder of the weighted sum mod 11, or 11 - remainder).
C3_ChecksumDecides ==
    (vCalled /\ IsTenDigits(vInput) /\ vInput \notin Identical)
        => (vResult <=> DigitValueOf(vInput[10]) = ExpectedCheckDigit(vInput))

C3_Witness ==
    /\ vCalled /\ vInput = Fixture /\ vResult
    /\ WeightedSum(vInput, 8) % 11 >= 2

\* C4: validateNationalId returns false for every string that is not exactly
\* ten decimal digits (empty, another length, a non-digit at any position).
C4_MalformedRejected ==
    (vCalled /\ ~IsTenDigits(vInput)) => (vResult = FALSE)

C4_Witness ==
    /\ vCalled /\ ~vResult
    /\ Len(vInput) = 10
    /\ \A i \in 1..9 : vInput[i] \in DigitChars
    /\ vInput[10] \notin DigitChars

\* C5: validateNationalId returns false for each of the ten strings of ten
\* identical digits, although each of them satisfies the checksum.
C5_IdenticalRejected ==
    (vCalled /\ vInput \in Identical) => (vResult = FALSE)

C5_Witness ==
    /\ vCalled /\ ~vResult
    /\ vInput = [i \in 1..10 |-> "1"]
    /\ DigitValueOf(vInput[10]) = ExpectedCheckDigit(vInput)

(***************************************************************************)
(* The remote store: tables students and expected_students                 *)
(***************************************************************************)
MaxUploads == 2

MaxRows == 2

\* what the store may answer to a request
StoreOutcomes == {"ok", "error"}

Reliable == {"ok"}

IdA == Fixture

IdB == <<"0", "0", "1", "0", "0", "1", "0", "0", "1", "7">>

IdBad == <<"0", "0", "1", "0", "0", "1", "0", "0", "1", "1">>

IdC == <<"0", "0", "1", "0", "0", "1", "0", "0", "2", "5">>

IdASeparated == <<"0", "4", "9", "9", "-", "3", "7", "0", "8", "9", "9">>

\* the rows a spreadsheet is made of: two valid ones (the first with a
\* separator in its identity cell) and one with a wrong check digit
RowPool ==
    { [firstName |-> <<"a">>, lastName |-> <<"b">>, nationalId |-> IdASeparated,
       className |-> "701", numericName |-> FALSE],
      [firstName |-> <<"a", " ", " ", "b">>, lastName |-> <<"b">>, nationalId |-> IdB,
       className |-> "801", numericName |-> FALSE],
      [firstName |-> <<"a">>, lastName |-> <<"b">>, nationalId |-> IdBad,
       className |-> "701", numericName |-> FALSE] }

Files == UNION { [1..n -> RowPool] : n \in 0..MaxRows }

\* more rows, for the row loop alone: a first name of blanks, no last name
\* (and a wrong identity), an unknown class, an unknown class with a wrong
\* identity, a number as first name
IngestRowPool ==
    RowPool \cup
    { [firstName |-> <<" ", " ">>, lastName |-> <<"b">>, nationalId |-> IdC,
       className |-> "702", numericName |-> FALSE],
      [firstName |-> <<"a">>, lastName |-> <<>>, nationalId |-> IdBad,
       className |-> "701", numericName |-> FALSE],
      [firstName |-> <<"a">>, lastName |-> <<"b">>, nationalId |-> IdC,
       className |-> "900", numericName |-> FALSE],
      [firstName |-> <<"a">>, lastName |-> <<"b">>, nationalId |-> IdBad,
       className |-> "900", numericName |-> FALSE],
      [firstName |-> <<"7">>, lastName |-> <<"b">>, nationalId |-> IdC,
       className |-> "807", numericName |-> TRUE] }

IngestFiles == UNION { [1..n -> IngestRowPool] : n \in 0..MaxRows }

\* what a registrant types into the form
FormInputs ==
    [national_id : {IdA, IdB, IdBad}, first_name : {<<"z">>}, last_name : {<<"y">>},
     father_name : {<<"x">>}, class_name : {"702"}, father_phone : {<<>>},
     mother_phone : {<<>>}, student_phone : {<<>>}]

\* the registrant beside the tracking view registers one student
OneInput == { d \in FormInputs : d.national_id = IdA }

\* the registrants of the tracking specification and of the registration one
OneRegistrant == {1}

\* national_id VARCHAR(20) UNIQUE NOT NULL of students
StudentInsertRejectedMutant(student) == FALSE

StudentInsertRejected(student) ==
    \E s \in students : s.national_id = student.national_id

ExpectedInsertRejectedWithinFile(rows) ==
    \E i, j \in 1..Len(rows) : i # j /\ rows[i].national_id = rows[j].national_id

\* national_id VARCHAR(20) UNIQUE NOT NULL of expected_students
ExpectedInsertRejected(rows) ==
    \/ \E i, j \in 1..Len(rows) : i # j /\ rows[i].national_id = rows[j].national_id
    \/ \E i \in 1..Len(rows) : \E e \in expected : e.national_id = rows[i].national_id

\* .eq('upload_session_id', sessionId)
BatchRows(sessionId) == { e \in expected : e.upload_session_id = sessionId }

\* .order('created_at', { ascending: false }) over rows of one insert, which
\* share created_at: any order
QueryOrders(rows) ==
    { q \in [1..Cardinality(rows) -> rows] : \A r \in rows : \E i \in DOMAIN q : q[i] = r }

\* StudentService.getAllStudents: the rows, in the order the store returns
\* them
GetAllStudents == QueryOrders(students)

\* new Set(registeredStudents.map(s => s.national_id))
NationalIdSetByName(registeredStudents) ==
    { registeredStudents[i].first_name : i \in DOMAIN registeredStudents }

NationalIdSet(registeredStudents) ==
    { registeredStudents[i].national_id : i \in DOMAIN registeredStudents }

\* the identities stored in students
RegisteredNationalIds == { s.national_id : s \in students }

\* expectedStudents.filter(expected => !registeredNationalIds.has(expected.national_id))
UnregisteredOfMutant(expectedStudents, registeredNationalIds) ==
    SelectSeq(expectedStudents, LAMBDA e : ~e.is_registered)

Reverse(q) == [i \in 1..Len(q) |-> q[Len(q) + 1 - i]]

UnregisteredOfReversed(expectedStudents, registeredNationalIds) ==
    Reverse(SelectSeq(expectedStudents, LAMBDA e : e.national_id \notin registeredNationalIds))

UnregisteredOf(expectedStudents, registeredNationalIds) ==
    SelectSeq(expectedStudents, LAMBDA e : e.national_id \notin registeredNationalIds)

\* .update({ is_registered: isRegistered }).eq('id', expected.id)
UpdateTargetsMutant(row) == expected

UpdateTargets(row) == { e \in expected : e.id = row.id }

(***************************************************************************)
(* Init                                                                    *)
(***************************************************************************)
Init ==
    /\ vInput = <<>>
    /\ vCalled = FALSE
    /\ vResult = FALSE
    /\ InitStore /\ InitView /\ InitHandlers /\ InitForms /\ InitSignedIn
    /\ hostedInApp \in BOOLEAN
    /\ refreshTrigger = 0

(***************************************************************************)
(* TrackingSystem.handleFileUpload                                         *)
(***************************************************************************)
\* lines 20-27: a file that is not .xlsx/.xls (with no file: nothing happens)
UploadRejectedFile ==
    /\ uplPc = "idle" /\ ~isUploading
    /\ \E kind \in {"none", "other"} :
         toast' = IF kind = "other" THEN Toast("error", "not_excel") ELSE toast
    /\ UNCHANGED <<authVars, vvars, storeVars, hostVars, uplVars, cmpVars, formVars,
                   isUploading, uploadedStudents, unregisteredStudents, currentSessionId,
                   isComparing>>

\* lines 38-77: the row loop over each file of Files, as a table
ProcessedFiles ==
    { <<excelData, ProcessRows(excelData, 0, <<>>, <<>>)>> : excelData \in IngestFiles }

Processed(excelData) == (CHOOSE p \in ProcessedFiles : p[1] = excelData)[2]

\* lines 80-82: if (errors.length > 0 && expectedStudents.length === 0)
NoValidRecordsMutant(expectedStudents, errors) == FALSE

NoValidRecords(expectedStudents, errors) ==
    Len(errors) > 0 /\ Len(expectedStudents) = 0

\* lines 29-32: setIsUploading(true); parseExcelFile(file) is pending
UploadStart ==
    /\ uplPc = "idle" /\ ~isUploading
    /\ nextSession <= MaxUploads
    /\ isUploading' = TRUE
    /\ uplPc' = "parse"
    /\ UNCHANGED <<authVars, vvars, storeVars, hostVars, cmpVars, formVars,
                   uploadedStudents, unregisteredStudents, currentSessionId, isComparing,
                   toast, uplStudents, uplErrors, uplSession, nextSession>>

UploadFailsStillBusy(message) ==
    /\ toast' = Toast("error", message)
    /\ isUploading' = isUploading
    /\ uplPc' = "idle"
    /\ uplStudents' = <<>>
    /\ uplErrors' = <<>>
    /\ uplSession' = NoSession
    /\ UNCHANGED <<uploadedStudents, unregisteredStudents, currentSessionId, isComparing>>

\* lines 100-111: catch (toast) and finally
UploadFails(message) ==
    /\ toast' = Toast("error", message)
    /\ isUploading' = FALSE
    /\ uplPc' = "idle"
    /\ uplStudents' = <<>>
    /\ uplErrors' = <<>>
    /\ uplSession' = NoSession
    /\ UNCHANGED <<uploadedStudents, unregisteredStudents, currentSessionId, isComparing>>

\* lines 32-86 and database.ts lines 83-91: the parse result (an error, or
\* the rows of the file), the row loop, the batch-level checks, the session
\* identifier; uploadExpectedStudents deletes the rows of that session (the
\* answer is not looked at) and its insert is pending
UploadParsedFile(o, excelData) ==
    /\ uplPc = "parse"
    /\ LET r == Processed(excelData)
       IN  IF o = "error"
           THEN UploadFails("parse_error") /\ UNCHANGED <<nextSession, expected>>
           ELSE IF Len(excelData) = 0
           THEN UploadFails("empty_file") /\ UNCHANGED <<nextSession, expected>>
           ELSE IF NoValidRecords(r.expectedStudents, r.errors)
           THEN UploadFails("no_valid_records") /\ UNCHANGED <<nextSession, expected>>
           ELSE /\ uplStudents' = r.expectedStudents
                /\ uplErrors' = r.errors
                /\ uplSession' = nextSession
                /\ nextSession' = nextSession + 1
                /\ expected' = expected \ BatchRows(nextSession)
                /\ uplPc' = "insert"
                /\ UNCHANGED viewVars
    /\ UNCHANGED <<authVars, vvars, students, nextStudentId, nextExpectedId, hostVars, cmpVars,
                   formVars>>

UploadParsed(outs) == \E o \in outs : \E excelData \in Files : UploadParsedFile(o, excelData)

\* studentsWithSession, as stored: lines 88-96
InsertedRowsFrom(rows, sessionId, firstId) ==
    [i \in 1..Len(rows) |->
        [id |-> firstId + i - 1,
         first_name |-> rows[i].first_name,
         last_name |-> rows[i].last_name,
         national_id |-> rows[i].national_id,
         class_name |-> rows[i].class_name,
         is_registered |-> rows[i].is_registered,
         upload_session_id |-> sessionId]]

InsertedRows(rows, sessionId) == InsertedRowsFrom(rows, sessionId, nextExpectedId)

\* database.ts lines 93-99 and TrackingSystem lines 86-111: the insert, then
\* the state updates, the toast, onDataUpdated and finally.  Hosted by
\* AppContent, onDataUpdated changes the key of the TrackingSystem element
\* (App.tsx lines 71-73, 107-110): the view is mounted anew.
UploadInsertAnswer(o) ==
    /\ uplPc = "insert"
    /\ IF o = "error" \/ ExpectedInsertRejected(uplStudents)
       THEN /\ UploadFails("store_error")
            /\ UNCHANGED <<expected, nextExpectedId, refreshTrigger>>
       ELSE LET data == InsertedRows(uplStudents, uplSession)
            IN  /\ expected' = expected \cup { data[i] : i \in DOMAIN data }
                /\ nextExpectedId' = nextExpectedId + Len(data)
                /\ IF hostedInApp
                   THEN /\ refreshTrigger' = refreshTrigger + 1
                        /\ uploadedStudents' = <<>>
                        /\ currentSessionId' = NoSession
                        /\ unregisteredStudents' = <<>>
                        /\ isComparing' = FALSE
                   ELSE /\ refreshTrigger' = refreshTrigger
                        /\ uploadedStudents' = data
                        /\ currentSessionId' = uplSession
                        /\ unregisteredStudents' = <<>>
                        /\ isComparing' = isComparing
                /\ toast' = IF Len(uplErrors) > 0
                            THEN Toast("info", "uploaded_with_errors")
                            ELSE Toast("success", "uploaded")
                /\ isUploading' = FALSE
                /\ uplPc' = "idle"
                /\ uplStudents' = <<>>
                /\ uplErrors' = <<>>
                /\ uplSession' = NoSession
    /\ UNCHANGED <<authVars, vvars, students, nextStudentId, hostedInApp, cmpVars, formVars,
                   nextSession>>

UploadInsert(outs) == \E o \in outs : UploadInsertAnswer(o)

(***************************************************************************)
(* TrackingSystem.handleCompareData with                                   *)
(* ExpectedStudentService.updateRegistrationStatus / getUnregisteredStudents *)
(*                                                                         *)
(* The rows of a batch are written once, by the upload that made the batch,*)
(* and their flags only by the comparison of the view that uploaded it, so *)
(* a getExpectedStudents of the comparison reads the same rows whenever it *)
(* is answered: it is taken together with the step before it.              *)
(***************************************************************************)
\* lines 115-118: no batch uploaded in this view
CompareWithoutSession ==
    /\ cmpPc = "idle" /\ ~isComparing
    /\ currentSessionId = NoSession
    /\ toast' = Toast("error", "no_upload")
    /\ UNCHANGED <<authVars, vvars, storeVars, hostVars, uplVars, cmpVars, formVars,
                   isUploading, uploadedStudents, unregisteredStudents, currentSessionId,
                   isComparing>>

\* lines 133-138: a service call threw; catch (toast) and finally
CompareFails ==
    /\ toast' = Toast("error", "compare_error")
    /\ isComparing' = FALSE
    /\ cmpPc' = "idle"
    /\ cmpSession' = NoSession
    /\ cmpExpected' = <<>>
    /\ cmpRegIds' = {}
    /\ cmpIdx' = 0
    /\ UNCHANGED <<isUploading, uploadedStudents, unregisteredStudents, currentSessionId>>

\* database.ts lines 102-115: getExpectedStudents(sessionId) over a table
GetExpectedStudents(table, sessionId) ==
    QueryOrders({ e \in table : e.upload_session_id = sessionId })

\* lines 120-123 and database.ts line 134: setIsComparing(true);
\* updateRegistrationStatus reads the batch; its getAllStudents is pending
CompareStart(outs) ==
    /\ cmpPc = "idle" /\ ~isComparing
    /\ currentSessionId # NoSession
    /\ \E o \in outs :
         IF o = "error"
         THEN CompareFails
         ELSE /\ isComparing' = TRUE
              /\ cmpSession' = currentSessionId
              /\ \E q \in GetExpectedStudents(expected, currentSessionId) : cmpExpected' = q
              /\ cmpPc' = "update_students"
              /\ UNCHANGED <<isUploading, uploadedStudents, unregisteredStudents,
                             currentSessionId, toast, cmpRegIds, cmpIdx>>
    /\ UNCHANGED <<authVars, vvars, storeVars, hostVars, uplVars, formVars>>

\* database.ts line 119: the batch as getUnregisteredStudents reads it
UnregReadsBatch(o, table) ==
    IF o = "error"
    THEN CompareFails
    ELSE /\ \E q \in GetExpectedStudents(table, cmpSession) : cmpExpected' = q
         /\ cmpPc' = "unreg_students"
         /\ cmpIdx' = 0
         /\ UNCHANGED <<viewVars, cmpSession, cmpRegIds>>

\* database.ts lines 135-138: getAllStudents, registeredNationalIds; with an
\* empty batch the loop is over and getUnregisteredStudents is called
UpdateGetStudents(outs) ==
    /\ cmpPc = "update_students"
    /\ \E o \in outs :
         IF o = "error"
         THEN CompareFails
         ELSE IF Len(cmpExpected) = 0
         THEN \E o2 \in outs : UnregReadsBatch(o2, expected)
         ELSE /\ \E q \in GetAllStudents : cmpRegIds' = NationalIdSet(q)
              /\ cmpIdx' = 1
              /\ cmpPc' = "update_row"
              /\ UNCHANGED <<viewVars, cmpSession, cmpExpected>>
    /\ UNCHANGED <<authVars, vvars, storeVars, hostVars, uplVars, formVars>>

\* database.ts lines 138-145: one turn of the loop; the answer of the update
\* is not looked at.  After the last turn getUnregisteredStudents is called.
UpdateRow(outs) ==
    /\ cmpPc = "update_row"
    /\ LET row == cmpExpected[cmpIdx]
           isRegistered == row.national_id \in cmpRegIds
       IN  \E o \in outs :
             expected' =
                 IF o = "ok"
                 THEN (expected \ UpdateTargets(row))
                          \cup { [e EXCEPT !.is_registered = isRegistered] : e \in UpdateTargets(row) }
                 ELSE expected
    /\ IF cmpIdx = Len(cmpExpected)
       THEN \E o2 \in outs : UnregReadsBatch(o2, expected')
       ELSE /\ cmpIdx' = cmpIdx + 1
            /\ UNCHANGED <<viewVars, cmpPc, cmpSession, cmpExpected, cmpRegIds>>
    /\ UNCHANGED <<authVars, vvars, students, nextStudentId, nextExpectedId, hostVars,
                   uplVars, formVars>>

\* database.ts lines 122-130 and TrackingSystem lines 126-138: getAllStudents,
\* the filter, setUnregisteredStudents, the toast, finally
UnregGetStudentsAnswer(o) ==
    /\ cmpPc = "unreg_students"
    /\ IF o = "error"
       THEN CompareFails
       ELSE /\ \E q \in GetAllStudents :
                 unregisteredStudents' = UnregisteredOf(cmpExpected, NationalIdSet(q))
            /\ toast' = Toast("success", "compared")
            /\ isComparing' = FALSE
            /\ cmpPc' = "idle"
            /\ cmpSession' = NoSession
            /\ cmpExpected' = <<>>
            /\ cmpRegIds' = {}
            /\ cmpIdx' = 0
            /\ UNCHANGED <<isUploading, uploadedStudents, currentSessionId>>
    /\ UNCHANGED <<authVars, vvars, storeVars, hostVars, uplVars, formVars>>

UnregGetStudents(outs) == \E o \in outs : UnregGetStudentsAnswer(o)

(***************************************************************************)
(* StudentForm.handleSubmit with validateForm and StudentService           *)
(***************************************************************************)
\* validateForm lines 389-405: the checks made before the store is asked
NationalIdError(data) ==
    data.national_id = <<>> \/ ~validateNationalId(data.national_id)

\* phone.replace(/\s/g, '')
StripSpaces(s) == SelectSeq(s, LAMBDA c : c # " ")

\* 9\d{9}
IsMobileNumber(s) ==
    /\ Len(s) = 10
    /\ s[1] = "9"
    /\ \A i \in 2..10 : s[i] \in DigitChars

\* utils.ts lines 25-29: /^(\+98|0)?9\d{9}$/ on the phone without whitespace
validatePhoneNumber(phone) ==
    \/ phone = <<>>
    \/ LET cleaned == StripSpaces(phone)
       IN  \/ IsMobileNumber(cleaned)
           \/ Len(cleaned) = 11 /\ cleaned[1] = "0" /\ IsMobileNumber(Tail(cleaned))
           \/ /\ Len(cleaned) = 13
              /\ SubSeq(cleaned, 1, 3) = <<"+", "9", "8">>
              /\ IsMobileNumber(SubSeq(cleaned, 4, 13))

OtherFieldErrorPhonesUnchecked(data) ==
    \/ TrimRight(TrimLeft(data.first_name)) = <<>>
    \/ TrimRight(TrimLeft(data.last_name)) = <<>>
    \/ TrimRight(TrimLeft(data.father_name)) = <<>>
    \/ data.class_name = ""

\* validateForm lines 389-397, 403-416: the other required fields and the phones
OtherFieldError(data) ==
    \/ TrimRight(TrimLeft(data.first_name)) = <<>>
    \/ TrimRight(TrimLeft(data.last_name)) = <<>>
    \/ TrimRight(TrimLeft(data.father_name)) = <<>>
    \/ data.class_name = ""
    \/ data.father_phone # <<>> /\ ~validatePhoneNumber(data.father_phone)
    \/ data.mother_phone # <<>> /\ ~validatePhoneNumber(data.mother_phone)
    \/ data.student_phone # <<>> /\ ~validatePhoneNumber(data.student_phone)

\* lines 434-441 with validateForm: the form as typed is checked; with an
\* identity error the store is not asked and the submission ends
FormSubmit(f, inputs) ==
    /\ formPc[f] = "idle" /\ ~isSubmitting[f]
    /\ \E data \in inputs :
         /\ formData' = [formData EXCEPT ![f] = data]
         /\ IF NationalIdError(data)
            THEN /\ formOutcome' = [formOutcome EXCEPT ![f] = "invalid"]
                 /\ formPc' = formPc
            ELSE /\ formOutcome' = [formOutcome EXCEPT ![f] = "none"]
                 /\ formPc' = [formPc EXCEPT ![f] = "checking"]
    /\ UNCHANGED <<authVars, vvars, storeVars, hostVars, viewVars, uplVars, cmpVars, isSubmitting,
                   formExists>>

\* database.ts lines 52-61 (checkNationalIdExists) and validateForm lines
\* 419-431, handleSubmit lines 437-443: a failed check is logged and the
\* submission goes on
FormChecked(f, outs) ==
    /\ formPc[f] = "checking"
    /\ \E o \in outs :
         LET exists == o = "ok" /\ formData[f].national_id \in RegisteredNationalIds
         IN  IF exists \/ OtherFieldError(formData[f])
             THEN /\ formOutcome' = [formOutcome EXCEPT ![f] = "invalid"]
                  /\ formPc' = [formPc EXCEPT ![f] = "idle"]
                  /\ UNCHANGED <<isSubmitting, formExists>>
             ELSE /\ isSubmitting' = [isSubmitting EXCEPT ![f] = TRUE]
                  /\ formPc' = [formPc EXCEPT ![f] = "inserting"]
                  /\ formExists' = [formExists EXCEPT ![f] = IF o = "ok" THEN "false" ELSE "threw"]
                  /\ UNCHANGED formOutcome
    /\ UNCHANGED <<authVars, vvars, storeVars, hostVars, viewVars, uplVars, cmpVars, formData>>

\* handleSubmit lines 446-458: sanitizedData
SanitizedData(data) == [data EXCEPT !.first_name = sanitizeInput(data.first_name)]

\* database.ts lines 6-18 (createStudent) and handleSubmit lines 460-488
FormInserted(f, outs) ==
    /\ formPc[f] = "inserting"
    /\ \E o \in outs :
         LET student == SanitizedData(formData[f])
         IN  IF o = "error" \/ StudentInsertRejected(student)
             THEN /\ formOutcome' = [formOutcome EXCEPT ![f] = "error"]
                  /\ UNCHANGED <<students, nextStudentId, formData>>
             ELSE /\ students' = students \cup
                        { [id |-> nextStudentId,
                           national_id |-> student.national_id,
                           first_name |-> student.first_name,
                           class_name |-> student.class_name] }
                  /\ nextStudentId' = nextStudentId + 1
                  /\ formOutcome' = [formOutcome EXCEPT ![f] = "success"]
                  /\ formData' = [formData EXCEPT ![f] = EmptyForm]
    /\ isSubmitting' = [isSubmitting EXCEPT ![f] = FALSE]
    /\ formPc' = [formPc EXCEPT ![f] = "idle"]
    /\ formExists' = [formExists EXCEPT ![f] = "none"]
    /\ UNCHANGED <<authVars, vvars, expected, nextExpectedId, hostVars, viewVars, uplVars, cmpVars>>

(***************************************************************************)
(* The specifications                                                      *)
(***************************************************************************)
Register(who, inputs, outs) ==
    \/ \E f \in who : FormSubmit(f, inputs)
    \/ \E f \in who : FormChecked(f, outs)
    \/ \E f \in who : FormInserted(f, outs)

NextWith(outs) ==
    \/ UploadRejectedFile
    \/ UploadStart
    \/ UploadParsed(outs)
    \/ UploadInsert(outs)
    \/ CompareWithoutSession
    \/ CompareStart(outs)
    \/ UpdateGetStudents(outs)
    \/ UpdateRow(outs)
    \/ UnregGetStudents(outs)
    \/ Register(OneRegistrant, OneInput, outs)

\* the tracking view and one registrant; the store may answer any request
\* with an error
Next == NextWith(StoreOutcomes)

Spec == Init /\ [][Next]_vars

\* the same with a store that answers every request
NextReliable == NextWith(Reliable)

SpecReliable == Init /\ [][NextReliable]_vars

\* two registrants, each in a browser session of its own
NextRegister == Register(Forms, FormInputs, StoreOutcomes)

SpecRegister == Init /\ [][NextRegister]_vars

(***************************************************************************)
(* Reconciliation                                                          *)
(***************************************************************************)
\* the set of the elements of a sequence
Range(q) == { q[i] : i \in DOMAIN q }

\* the identities a test may register
SomeIds == {IdA, IdB, IdC}

\* C1: when getUnregisteredStudents(sessionId) returns, what it returns is
\* exactly the stored expected records of that batch whose national_id is
\* the national_id of no stored student, each once: none with a registered
\* identity is returned and none with an unregistered identity is left out;
\* with no students it is the whole batch, and of no expected records the
\* filter keeps none.
C1_UnregisteredExact ==
    [][UnregGetStudentsAnswer("ok") =>
         LET wanted == { e \in BatchRows(cmpSession) :
                           \A s \in students : s.national_id # e.national_id }
         IN  /\ Range(unregisteredStudents') = wanted
             /\ Len(unregisteredStudents') = Cardinality(wanted)
             /\ (students = {} => Range(unregisteredStudents') = BatchRows(cmpSession))
             /\ \A ids \in SUBSET SomeIds : UnregisteredOf(<<>>, ids) = <<>>]_vars

\* a comparison has returned a list that keeps one record of the batch and
\* leaves out another, whose identity is registered
C1_Witness ==
    /\ toast = Toast("success", "compared")
    /\ Len(unregisteredStudents) > 0
    /\ \E e \in BatchRows(currentSessionId) :
         /\ e.national_id \in RegisteredNationalIds
         /\ e \notin Range(unregisteredStudents)

\* C10: a step of the reconciliation of batch s (updateRegistrationStatus(s),
\* getUnregisteredStudents(s)) changes nothing but the is_registered field
\* of expected records of batch s: the students are as before, the expected
\* records are the same records by id, those of other batches unchanged and
\* those of batch s equal to what they were in every other field.
C10_ReconcileFrame ==
    [][cmpVars' # cmpVars =>
         LET s == IF cmpPc = "idle" THEN currentSessionId ELSE cmpSession
         IN  /\ students' = students
             /\ Cardinality(expected') = Cardinality(expected)
             /\ \A e \in expected :
                  \E e2 \in expected' :
                     /\ e2 = [e EXCEPT !.is_registered = e2.is_registered]
                     /\ (e.upload_session_id # s => e2 = e)]_vars

\* a comparison is setting flags of one batch while another batch and a
\* student are stored
C10_Witness ==
    /\ cmpPc = "unreg_students"
    /\ students # {}
    /\ \E e1, e2 \in expected :
         /\ e1.upload_session_id = cmpSession
         /\ e1.is_registered
         /\ e2.upload_session_id # cmpSession

\* C2: once updateRegistrationStatus(sessionId) has completed, every
\* expected record of the batch has is_registered true iff its national_id
\* is among the registered identities the call read (so with every identity
\* registered every flag is true).
C2_FlagsMatchRegistered ==
    cmpPc = "unreg_students" =>
        \A e \in BatchRows(cmpSession) :
            e.is_registered <=> e.national_id \in cmpRegIds

\* C8: when a comparison completes successfully, an expected record of the
\* current batch is in the displayed unregistered list iff its stored
\* is_registered flag is false, whatever registrations went on meanwhile.
C8_ListMatchesFlags ==
    [][(cmpPc = "unreg_students" /\ cmpPc' = "idle"
          /\ toast' = Toast("success", "compared")) =>
         \A e \in expected' :
            e.upload_session_id = cmpSession =>
               (e \in Range(unregisteredStudents') <=> ~e.is_registered)]_vars

(***************************************************************************)
(* Import                                                                  *)
(***************************************************************************)
\* the rows of a file that pass the row checks
ValidRows(excelData) == Processed(excelData).expectedStudents

\* C7: a file with no valid row (no rows, or every row rejected) ends the
\* upload in its failure: the error toast, nothing written to the expected
\* students, uploadedStudents, currentSessionId and unregisteredStudents as
\* before; and uploadExpectedStudents is never called with an empty list.
C7_NoValidRowsFails ==
    [][/\ uplPc = "parse" =>
          \A excelData \in Files :
            (UploadParsedFile("ok", excelData) /\ ValidRows(excelData) = <<>>) =>
               /\ toast'.type = "error"
               /\ uplPc' = "idle" /\ ~isUploading'
               /\ expected' = expected
               /\ uploadedStudents' = uploadedStudents
               /\ currentSessionId' = currentSessionId
               /\ unregisteredStudents' = unregisteredStudents
       /\ (uplPc' = "insert" => Len(uplStudents') > 0)]_vars

\* an upload has ended with "no valid record" while an earlier batch is in
\* the view
C7_Witness ==
    /\ toast = Toast("error", "no_valid_records")
    /\ uplPc = "idle"
    /\ currentSessionId # NoSession
    /\ expected # {}

\* C6: a file with at least one valid row is imported in part: its upload
\* goes on to the store with exactly the valid rows, one error counted for
\* every other row, and ends with every valid row stored under the new
\* batch identifier.
C6_ValidRowsStored ==
    [][/\ uplPc = "parse" =>
          \A excelData \in Files :
            (UploadParsedFile("ok", excelData) /\ ValidRows(excelData) # <<>>) =>
               /\ uplPc' = "insert"
               /\ uplStudents' = ValidRows(excelData)
               /\ Len(uplErrors') = Len(excelData) - Len(ValidRows(excelData))
       /\ (uplPc = "insert" /\ uplPc' = "idle") =>
             \A i \in DOMAIN uplStudents :
                \E e \in expected' :
                   /\ e.upload_session_id = uplSession
                   /\ e.national_id = uplStudents[i].national_id
                   /\ e.first_name = uplStudents[i].first_name
                   /\ e.class_name = uplStudents[i].class_name]_vars

(***************************************************************************)
(* Registration                                                            *)
(***************************************************************************)
\* C9: the students hold at most one record per national_id; a createStudent
\* for an identity that is stored already, whose submission passed the
\* existence check before the other insert, adds nothing and ends in the
\* error outcome.
C9_UniqueNationalId ==
    [][/\ \A s1, s2 \in students' : s1.national_id = s2.national_id => s1 = s2
       /\ \A f \in Forms :
            (/\ formPc[f] = "inserting" /\ formPc'[f] = "idle"
             /\ formData[f].national_id \in RegisteredNationalIds) =>
               /\ formOutcome'[f] = "error"
               /\ students' = students]_vars

\* both submissions were inserting the same identity; the first was stored,
\* the second ended in the error
C9_Witness ==
    /\ formOutcome[1] = "success"
    /\ formOutcome[2] = "error"
    /\ formPc[1] = "idle" /\ formPc[2] = "idle"
    /\ Cardinality(students) = 1
    /\ formData[2].national_id \in RegisteredNationalIds

(***************************************************************************)
(* Comparisons of one stored batch, one after another: the view has        *)
(* uploaded a file, some students have registered, and from then on only   *)
(* handleCompareData runs (the store may answer any request with an error) *)
(***************************************************************************)
\* the files whose upload succeeds on an empty store
StorableFiles ==
    { excelData \in Files :
        LET rows == ValidRows(excelData)
        IN  /\ rows # <<>>
            /\ \A i, j \in DOMAIN rows :
                  rows[i].national_id = rows[j].national_id => i = j }

\* the registrations made so far, in the order they were stored
Registrations == UNION { QueryOrders(ids) : ids \in SUBSET SomeIds }

StudentsOf(registered) ==
    { [id |-> i, national_id |-> registered[i],
       first_name |-> <<"z">>, class_name |-> "702"] : i \in DOMAIN registered }

InitReconcile ==
    /\ vInput = <<>> /\ vCalled = FALSE /\ vResult = FALSE
    /\ hostedInApp = FALSE
    /\ refreshTrigger = 0
    /\ InitForms /\ InitSignedIn
    /\ uplPc = "idle" /\ uplStudents = <<>> /\ uplErrors = <<>>
    /\ uplSession = NoSession /\ nextSession = 2
    /\ cmpPc = "idle" /\ cmpSession = NoSession /\ cmpExpected = <<>>
    /\ cmpRegIds = {} /\ cmpIdx = 0
    /\ \E excelData \in StorableFiles : \E registered \in Registrations :
         LET data == InsertedRowsFrom(ValidRows(excelData), 1, 1)
         IN  /\ expected = Range(data)
             /\ nextExpectedId = Len(data) + 1
             /\ students = StudentsOf(registered)
             /\ nextStudentId = Len(registered) + 1
             /\ uploadedStudents = data
             /\ toast = IF Len(data) < Len(excelData)
                        THEN Toast("info", "uploaded_with_errors")
                        ELSE Toast("success", "uploaded")
    /\ currentSessionId = 1
    /\ unregisteredStudents = <<>>
    /\ isUploading = FALSE
    /\ isComparing = FALSE

NextReconcile ==
    \/ CompareStart(StoreOutcomes)
    \/ UpdateGetStudents(StoreOutcomes)
    \/ UpdateRow(StoreOutcomes)
    \/ UnregGetStudents(StoreOutcomes)

SpecReconcile == InitReconcile /\ [][NextReconcile]_vars

\* C11: reconciliation is idempotent.  When the comparison before this one
\* completed and nothing else changed since (the last toast is still its
\* success), updateRegistrationStatus leaves every is_registered flag as
\* that comparison left it, and getUnregisteredStudents returns the same
\* records as it returned then.
C11_Idempotent ==
    [][toast = Toast("success", "compared") =>
         /\ expected' = expected
         /\ (cmpPc = "unreg_students" /\ toast' = Toast("success", "compared")) =>
               Range(unregisteredStudents') = Range(unregisteredStudents)]_vars

\* where a record stands in a list that holds it once
PositionIn(q, x) == CHOOSE k \in DOMAIN q : q[k] = x

\* C12: the list getUnregisteredStudents returns keeps the order of the
\* expected list it was computed from (getExpectedStudents): every record of
\* the result is a record of that list and two records of the result stand
\* in the order they have there; and the result is the same for every order
\* in which getAllStudents may return the students.
C12_OrderPreserved ==
    [][UnregGetStudentsAnswer("ok") =>
         LET result == unregisteredStudents'
         IN  /\ \A i \in DOMAIN result : result[i] \in Range(cmpExpected)
             /\ \A i, j \in DOMAIN result :
                  i < j => PositionIn(cmpExpected, result[i]) < PositionIn(cmpExpected, result[j])
             /\ \A q \in GetAllStudents :
                  result = UnregisteredOf(cmpExpected, NationalIdSet(q))]_vars

\* a comparison has returned two records while a student is registered
C12_Witness ==
    /\ toast = Toast("success", "compared")
    /\ Len(unregisteredStudents) = 2
    /\ students # {}

\* the records of a list under another first name and class
Renamed(list, name, class) ==
    [i \in DOMAIN list |-> [list[i] EXCEPT !.first_name = name, !.class_name = class]]

OtherNames == {<<"a">>, <<"q">>}

OtherClasses == {"701", "807"}

NationalIdsOf(list) == { list[i].national_id : i \in DOMAIN list }

\* C13: reconciliation compares identity numbers only.  The list returned
\* leaves out exactly the expected records whose national_id some student
\* has, whatever the student's name and class; computed from expected and
\* registered records with the same identities and other names and classes
\* (on either side) the unregistered identities are the same; and a flag
\* that updateRegistrationStatus changes becomes true iff some student has
\* the record's national_id.
C13_IdentityOnly ==
    [][/\ UnregGetStudentsAnswer("ok") =>
            /\ \A e \in Range(cmpExpected) :
                  e \in Range(unregisteredStudents') <=>
                     ~ \E st \in students : st.national_id = e.national_id
            /\ \A q \in GetAllStudents : \A n1, n2 \in OtherNames : \A c1, c2 \in OtherClasses :
                  NationalIdsOf(UnregisteredOf(Renamed(cmpExpected, n1, c1),
                                               NationalIdSet(Renamed(q, n2, c2))))
                     = NationalIdsOf(unregisteredStudents')
       /\ cmpPc = "update_row" =>
            \A e \in expected' \ expected :
               e.is_registered <=> \E st \in students : st.national_id = e.national_id]_vars

\* a record whose identity is registered under another name and class has
\* been flagged as registered and left out of the list
C13_Witness ==
    /\ toast = Toast("success", "compared")
    /\ Len(unregisteredStudents) > 0
    /\ \E e \in BatchRows(currentSessionId) : \E st \in students :
         /\ st.national_id = e.national_id
         /\ st.first_name # e.first_name
         /\ st.class_name # e.class_name
         /\ e.is_registered
         /\ e \notin Range(unregisteredStudents)

(***************************************************************************)
(* ExpectedStudentService.uploadExpectedStudents(students, sessionId),     *)
(* called with any list of admitted rows and any batch identifier, also    *)
(* one under which records are stored                                      *)
(***************************************************************************)
\* no call is started once the store has handed out this many ids
MaxExpectedId == 4

\* the lists of rows handleFileUpload can admit
StudentLists == { ValidRows(excelData) : excelData \in Files } \ {<<>>}

\* the call: students, sessionId
ServiceUploadCall ==
    /\ uplPc = "idle"
    /\ nextExpectedId <= MaxExpectedId
    /\ \E rows \in StudentLists : \E sessionId \in 1..MaxUploads :
         /\ uplStudents' = rows
         /\ uplSession' = sessionId
    /\ uplPc' = "svc_delete"
    /\ UNCHANGED <<authVars, vvars, storeVars, hostVars, viewVars, cmpVars, formVars,
                   uplErrors, nextSession>>

\* database.ts lines 83-86: delete().eq('upload_session_id', sessionId); the
\* answer is not looked at
ServiceUploadDelete(outs) ==
    /\ uplPc = "svc_delete"
    /\ \E o \in outs :
         expected' = IF o = "ok" THEN expected \ BatchRows(uplSession) ELSE expected
    /\ uplPc' = "svc_insert"
    /\ UNCHANGED <<authVars, vvars, students, nextStudentId, nextExpectedId, hostVars, viewVars,
                   cmpVars, formVars, uplStudents, uplErrors, uplSession, nextSession>>

\* database.ts lines 88-99: the insert; an error is thrown, else the rows
\* are returned
ServiceUploadInsert(outs) ==
    /\ uplPc = "svc_insert"
    /\ \E o \in outs :
         IF o = "error" \/ ExpectedInsertRejected(uplStudents)
         THEN UNCHANGED <<expected, nextExpectedId>>
         ELSE LET data == InsertedRows(uplStudents, uplSession)
              IN  /\ expected' = expected \cup Range(data)
                  /\ nextExpectedId' = nextExpectedId + Len(data)
    /\ uplPc' = "idle"
    /\ uplStudents' = <<>>
    /\ uplSession' = NoSession
    /\ UNCHANGED <<authVars, vvars, students, nextStudentId, hostVars, viewVars, cmpVars, formVars,
                   uplErrors, nextSession>>

NextUploadService ==
    \/ ServiceUploadCall
    \/ ServiceUploadDelete(StoreOutcomes)
    \/ ServiceUploadInsert(StoreOutcomes)

SpecUploadService == Init /\ [][NextUploadService]_vars

\* C14: when uploadExpectedStudents(students, s) succeeds (its insert is
\* performed), the expected records stored under s are exactly the given
\* students, each once: as many records as students, one for every student
\* with its fields, so that no record stored under s before remains.
C14_BatchReplaced ==
    [][(uplPc = "svc_insert" /\ expected' # expected) =>
         LET stored == { e \in expected' : e.upload_session_id = uplSession }
         IN  /\ Cardinality(stored) = Len(uplStudents)
             /\ \A i \in DOMAIN uplStudents :
                  \E e \in stored :
                     /\ e.national_id = uplStudents[i].national_id
                     /\ e.first_name = uplStudents[i].first_name
                     /\ e.last_name = uplStudents[i].last_name
                     /\ e.class_name = uplStudents[i].class_name
                     /\ e.is_registered = uplStudents[i].is_registered]_vars

(***************************************************************************)
(* handleFileUpload alone, on files of every kind of row                   *)
(***************************************************************************)
IngestParsed == \E excelData \in IngestFiles : UploadParsedFile("ok", excelData)

NextIngest ==
    \/ UploadStart
    \/ IngestParsed
    \/ UploadInsert(StoreOutcomes)

SpecIngest == Init /\ [][NextIngest]_vars

TenClasses == {"701", "702", "703", "801", "802", "803", "804", "805", "806", "807"}

\* C15: every record the ingestion hands to uploadExpectedStudents has a
\* national_id of ten digits and nothing else that passes
\* validateNationalId, a class_name among the ten classes, a first and a
\* last name that are not empty, and is_registered false.
C15_AdmittedRecordsValid ==
    [][uplPc' = "insert" =>
         \A i \in DOMAIN uplStudents' :
            LET admitted == uplStudents'[i]
            IN  /\ \A k \in DOMAIN admitted.national_id :
                      admitted.national_id[k] \in DigitChars
                /\ validateNationalId(admitted.national_id)
                /\ admitted.class_name \in TenClasses
                /\ admitted.first_name # <<>>
                /\ admitted.last_name # <<>>
                /\ admitted.is_registered = FALSE]_vars

\* what is wrong with a row, by the order of the checks: a required cell
\* missing, else the identity, else the class, else the processing
RowDefect(row) ==
    LET digits == SelectSeq(row.nationalId, LAMBDA c : c \in DigitChars)
    IN  IF row.firstName = <<>> \/ row.lastName = <<>> \/ digits = <<>> \/ row.className = ""
        THEN "missing"
        ELSE IF ~(IsTenDigits(digits) /\ validateNationalId(digits)) THEN "identity"
        ELSE IF row.className \notin TenClasses THEN "class"
        ELSE IF row.numericName THEN "processing"
        ELSE "none"

\* C16: every row of a sheet has exactly one outcome.  The loop ends with
\* as many admitted rows and errors together as the sheet has rows; and in
\* an upload that goes on, a row without defect has no error and any other
\* row has exactly one, of its first defect (missing field, then identity,
\* then class, then processing), whatever rows stand before it.
C16_OneOutcomePerRow ==
    [][uplPc = "parse" =>
         /\ \A excelData \in IngestFiles :
              Len(Processed(excelData).expectedStudents) + Len(Processed(excelData).errors)
                 = Len(excelData)
         /\ \A excelData \in IngestFiles :
              (UploadParsedFile("ok", excelData) /\ uplPc' = "insert") =>
                 /\ Len(uplStudents') + Len(uplErrors') = Len(excelData)
                 /\ \A k \in DOMAIN excelData :
                      LET about == { j \in DOMAIN uplErrors' : uplErrors'[j].row = k + 1 }
                          defect == RowDefect(excelData[k])
                      IN  IF defect = "none"
                          THEN about = {}
                          ELSE /\ Cardinality(about) = 1
                               /\ \A j \in about : uplErrors'[j].kind = defect]_vars

\* an upload goes on with the second row of its sheet admitted after an
\* error for the first
C16_Witness ==
    /\ uplPc = "insert"
    /\ Len(uplStudents) = 1
    /\ Len(uplErrors) = 1
    /\ uplErrors[1].row = 2

(***************************************************************************)
(* The check digit                                                         *)
(***************************************************************************)
\* the ten-character string with another last character
WithLast(s, d) == [s EXCEPT ![10] = d]

\* C17: changing the last digit of a valid identity number to any other
\* digit gives a number validateNationalId rejects; of the ten numbers that
\* share their first nine characters at most one is valid.
C17_LastDigitDecides ==
    (vCalled /\ Len(vInput) = 10) =>
        /\ vResult =>
              \A d \in DigitChars \ {vInput[10]} : ~validateNationalId(WithLast(vInput, d))
        /\ Cardinality({ d \in DigitChars : validateNationalId(WithLast(vInput, d)) }) <= 1

\* validateNationalId has accepted a number other than the fixture
C17_Witness ==
    /\ vCalled /\ vResult
    /\ vInput # Fixture
    /\ IsTenDigits(vInput)


(***************************************************************************)
(* Administrator authentication: the provider, the login form, the routes  *)
(***************************************************************************)
MaxTicks == 3

\* the step of the model's clock, milliseconds
HalfDay == 12 * 60 * 60 * 1000

Times == {k * HalfDay : k \in 0..MaxTicks}

\* Routes of AppContent
Paths == {"/", "/login", "/dashboard", "/tracking"}

\* What the login form can hand to login: the exact pair and near misses
Attempts ==
    {[username |-> u, password |-> p] : u \in {"admin", "Admin"},
                                        p \in {"iran@1404", "iran1404"}}

\* What the browser may hold under AUTH_STORAGE_KEY when the page is opened
StoredAtStart ==
    {Absent, Garbage}
        \cup {AuthRecord(isAuth, username, 0) : isAuth \in BOOLEAN,
                                                username \in {"admin", ""}}

appVars == <<vvars, storeVars, hostVars, viewVars, uplVars, cmpVars, formVars>>

\* useState initial values of AuthProvider; the page opened at some route, at
\* some time after the stored record (if any) was written
InitAuth ==
    /\ vInput = <<>> /\ vCalled = FALSE /\ vResult = FALSE
    /\ InitStore /\ InitView /\ InitHandlers /\ InitForms
    /\ hostedInApp = TRUE
    /\ refreshTrigger = 0
    /\ now \in Times
    /\ localStorage \in StoredAtStart
    /\ storageFull = FALSE
    /\ pathname \in Paths
    /\ isAuthenticated = FALSE
    /\ isLoading = TRUE
    /\ user = NullUser
    /\ loginPc = "idle"
    /\ loginIsLoading = FALSE
    /\ loginArgs = NoArgs
    /\ loginReturned = "none"

ClearSessionKeepRecord ==
    /\ UNCHANGED localStorage
    /\ isAuthenticated' = FALSE
    /\ user' = NullUser

\* localStorage.removeItem; setIsAuthenticated(false); setUser(null)
ClearSession ==
    /\ localStorage' = Absent
    /\ isAuthenticated' = FALSE
    /\ user' = NullUser

SessionAliveNoExpiry(record) ==
    /\ record.isAuth
    /\ record.username # ""

\* The test of checkAuthStatus on a parsed record
SessionAlive(record) ==
    /\ record.isAuth
    /\ record.username # ""
    /\ now - record.timestamp < sessionDuration

\* The mount effect of AuthProvider: checkAuthStatus, once per mount
checkAuthStatus ==
    /\ isLoading
    /\ IF localStorage.kind = "absent"
         THEN UNCHANGED <<localStorage, isAuthenticated, user>>
       ELSE IF localStorage.kind = "garbage"
         THEN ClearSession
       ELSE IF SessionAlive(localStorage)
         THEN /\ isAuthenticated' = TRUE
              /\ user' = User(localStorage.username)
              /\ UNCHANGED localStorage
         ELSE ClearSession
    /\ isLoading' = FALSE
    /\ UNCHANGED <<now, storageFull, pathname, loginVars, appVars>>

\* Login.handleSubmit up to the await inside login (the 500 ms timer)
LoginCall(args) ==
    /\ ~isLoading
    /\ pathname = "/login"
    /\ loginPc = "idle"
    /\ loginPc' = "delay"
    /\ loginIsLoading' = TRUE
    /\ loginArgs' = args
    /\ UNCHANGED <<loginReturned, browserVars, providerVars, appVars>>

CredentialsMatchUsername(args) ==
    args.username = ADMIN_CREDENTIALS.username

CredentialsMatch(args) ==
    /\ args.username = ADMIN_CREDENTIALS.username
    /\ args.password = ADMIN_CREDENTIALS.password

LoginResolvesEndingSession ==
    /\ loginPc = "delay"
    /\ loginPc' = "idle"
    /\ loginIsLoading' = FALSE
    /\ IF CredentialsMatch(loginArgs) /\ ~storageFull
         THEN /\ localStorage' = AuthRecord(TRUE, loginArgs.username, now)
              /\ isAuthenticated' = TRUE
              /\ user' = User(loginArgs.username)
              /\ loginReturned' = "true"
              /\ pathname' = "/dashboard"
         ELSE /\ loginReturned' = "false"
              /\ ClearSession
              /\ UNCHANGED pathname
    /\ UNCHANGED <<now, storageFull, isLoading, loginArgs, appVars>>

\* login after the timer, and the rest of Login.handleSubmit: onSuccess of
\* AppContent navigates to the dashboard
LoginResolves ==
    /\ loginPc = "delay"
    /\ loginPc' = "idle"
    /\ loginIsLoading' = FALSE
    /\ IF CredentialsMatch(loginArgs) /\ ~storageFull
         THEN /\ localStorage' = AuthRecord(TRUE, loginArgs.username, now)
              /\ isAuthenticated' = TRUE
              /\ user' = User(loginArgs.username)
              /\ loginReturned' = "true"
              /\ pathname' = "/dashboard"
         ELSE \* wrong pair, or setItem threw and the catch returned false
              /\ loginReturned' = "false"
              /\ UNCHANGED <<localStorage, isAuthenticated, user, pathname>>
    /\ UNCHANGED <<now, storageFull, isLoading, loginArgs, appVars>>

\* Header.handleLogout: logout(), then onTabChange('register')
logout ==
    /\ ~isLoading
    /\ isAuthenticated
    /\ pathname # "/login"
    /\ ClearSession
    /\ pathname' = "/"
    /\ UNCHANGED <<now, storageFull, isLoading, loginVars, appVars>>

\* A tab of the header or the browser's history: a route change without a
\* page load
Navigate(path) ==
    /\ ~isLoading
    /\ path # pathname
    /\ pathname' = path
    /\ UNCHANGED <<now, storageFull, localStorage, providerVars, loginVars, appVars>>

\* A page load (reload, a typed address, the <a href> links): the provider is
\* constructed again and a pending login is gone
Reload(path) ==
    /\ pathname' = path
    /\ isAuthenticated' = FALSE
    /\ isLoading' = TRUE
    /\ user' = NullUser
    /\ loginPc' = "idle"
    /\ loginIsLoading' = FALSE
    /\ loginArgs' = NoArgs
    /\ loginReturned' = "none"
    /\ UNCHANGED <<now, storageFull, localStorage, appVars>>

\* Other keys of the origin fill the storage quota, or free it
StorageQuota ==
    /\ storageFull' = ~storageFull
    /\ UNCHANGED <<now, localStorage, pathname, providerVars, loginVars, appVars>>

\* Time passes
Tick ==
    /\ now < MaxTicks * HalfDay
    /\ now' = now + HalfDay
    /\ UNCHANGED <<localStorage, storageFull, pathname, providerVars, loginVars, appVars>>

NextAuth ==
    \/ checkAuthStatus
    \/ \E args \in Attempts : LoginCall(args)
    \/ LoginResolves
    \/ logout
    \/ \E path \in Paths : Navigate(path)
    \/ \E path \in Paths : Reload(path)
    \/ StorageQuota
    \/ Tick

SpecAuth == InitAuth /\ [][NextAuth]_vars

\* What ProtectedRoute renders
NoFallback == "none"

ProtectedRouteOpen(children, fallback) ==
    IF isLoading THEN "loading"
    ELSE children

ProtectedRoute(children, fallback) ==
    IF isLoading THEN "loading"
    ELSE IF ~isAuthenticated
      THEN IF fallback # NoFallback THEN fallback ELSE "access_restricted"
    ELSE children

\* <Routes> of AppContent: the element shown for the current pathname
Screen ==
    CASE pathname = "/dashboard" -> ProtectedRoute("Dashboard", NoFallback)
      [] pathname = "/tracking" -> ProtectedRoute("TrackingSystem", NoFallback)
      [] pathname = "/login" -> "Login"
      [] OTHER -> "StudentForm"

\* C18: whenever the administrator is authenticated, the session record holds
\* a login timestamp less than 24 hours old.
C18_SessionYoungerThanADay ==
    isAuthenticated =>
        /\ localStorage.kind = "record"
        /\ now - localStorage.timestamp < sessionDuration

ProtectedViews == {"Dashboard", "TrackingSystem"}
ProtectedPaths == {"/dashboard", "/tracking"}

\* C20: the dashboard and the tracking view are on screen only while
\* isAuthenticated is true and isLoading is false; while isLoading is true a
\* protected route shows the loading indicator, and while the user is not
\* authenticated it shows the access-restricted panel or the fallback it was
\* given, never its children.
C20_ProtectedViewsGuarded ==
    /\ Screen \in ProtectedViews => (isAuthenticated /\ ~isLoading)
    /\ pathname \in ProtectedPaths =>
         /\ isLoading => Screen = "loading"
         /\ (~isLoading /\ ~isAuthenticated) => Screen = "access_restricted"
    /\ \A children \in ProtectedViews : \A fallback \in {NoFallback, "fallback"} :
         LET shown == ProtectedRoute(children, fallback)
         IN  /\ isLoading => shown = "loading"
             /\ (~isLoading /\ ~isAuthenticated) =>
                  shown = IF fallback = NoFallback THEN "access_restricted" ELSE fallback
             /\ shown = children => (isAuthenticated /\ ~isLoading)

\* The administrator logged in and moved from the dashboard to the tracking view
C20_Witness ==
    /\ loginReturned = "true"
    /\ pathname = "/tracking"
    /\ Screen = "TrackingSystem"

\* C21: the mount-time checkAuthStatus restores the stored session (isAuthenticated
\* true, user = the stored username) exactly when the record has isAuth true, a
\* non-empty username and an age below 24 hours; a record failing the test or an
\* unparsable one is removed and the user is unauthenticated; with no record the
\* user stays unauthenticated and the storage is untouched.
C21_MountRestoresLiveSession ==
    [][(isLoading /\ ~isLoading') =>
         LET stored == localStorage
             live == /\ stored.kind = "record"
                     /\ stored.isAuth
                     /\ stored.username # ""
                     /\ now - stored.timestamp < 24 * 60 * 60 * 1000
         IN  /\ isAuthenticated' <=> live
             /\ live => (user' = User(stored.username) /\ localStorage' = stored)
             /\ (~live /\ stored.kind # "absent") =>
                  (localStorage' = Absent /\ user' = NullUser)
             /\ stored.kind = "absent" =>
                  (localStorage' = stored /\ user' = NullUser)]_vars

\* A session restored from a record written 12 hours before the page was opened
C21_Witness ==
    /\ ~isLoading
    /\ isAuthenticated
    /\ loginReturned = "none"
    /\ localStorage.kind = "record"
    /\ now - localStorage.timestamp = HalfDay

\* C22: a login attempt with any pair other than the administrator's returns
\* false and leaves isAuthenticated, user and the stored session record as they
\* were; a session that is already authenticated is not ended by it.
C22_FailedLoginChangesNothing ==
    [][(loginPc = "delay" /\ loginPc' = "idle" /\ loginReturned' # "none"
          /\ ~(loginArgs.username = "admin" /\ loginArgs.password = "iran@1404")) =>
         /\ loginReturned' = "false"
         /\ UNCHANGED <<isAuthenticated, user, localStorage>>]_vars

\* A failed attempt made while a session was open
C22_Witness ==
    /\ loginPc = "idle"
    /\ loginReturned = "false"
    /\ loginArgs.password # "iran@1404"
    /\ isAuthenticated
    /\ localStorage.kind = "record"

\* getActiveTabFromPath of AppContent
getActiveTabFromPath(path) ==
    CASE path = "/dashboard" -> "dashboard"
      [] path = "/tracking" -> "tracking"
      [] path = "/login" -> "login"
      [] OTHER -> "register"

activeTab == getActiveTabFromPath(pathname)

\* C23: after logout the session record is absent, isAuthenticated is false,
\* user is null and the active tab is the public registration page; a mount
\* that finds no record leaves the user unauthenticated.
C23_LogoutEndsSession ==
    [][/\ (isAuthenticated /\ ~isAuthenticated' /\ ~isLoading') =>
            /\ localStorage' = Absent
            /\ user' = NullUser
            /\ activeTab' = "register"
       /\ (isLoading /\ ~isLoading' /\ localStorage.kind = "absent") =>
            (~isAuthenticated' /\ user' = NullUser)]_vars

\* Logged in and out again in the same page load
C23_Witness ==
    /\ loginReturned = "true"
    /\ ~isAuthenticated
    /\ ~isLoading
    /\ localStorage = Absent
    /\ activeTab = "register"

\* C29: isAuthenticated is true exactly when user is non-null, and a step that
\* sets isAuthenticated to true leaves a session record of that user in local
\* storage.
C29_AuthenticatedHasUserAndRecord ==
    [][/\ isAuthenticated' <=> ~user'.isNull
       /\ (~isAuthenticated /\ isAuthenticated') =>
            /\ localStorage'.kind = "record"
            /\ localStorage'.isAuth
            /\ localStorage'.username = user'.username]_vars

\* Authenticated by a login or by the mount check
C29_Witness ==
    /\ isAuthenticated
    /\ user = User("admin")
    /\ localStorage.kind = "record"
    /\ localStorage.username = "admin"
    /\ now > localStorage.timestamp

\* C24: in the running application, when handleFileUpload completes
\* successfully the view's currentSessionId is the identifier of the batch
\* just uploaded and uploadedStudents holds its rows, so that the next
\* handleCompareData reconciles that batch.
C24_UploadStateSurvives ==
    [][(hostedInApp /\ uplPc = "insert" /\ uplPc' = "idle"
          /\ toast' \in {Toast("success", "uploaded"), Toast("info", "uploaded_with_errors")}) =>
         /\ currentSessionId' = uplSession
         /\ uploadedStudents' = InsertedRows(uplStudents, uplSession)]_vars

\* TrackingSystem render, lines 324-337: the 'all students have registered' panel
AllRegisteredMessage ==
    /\ Len(uploadedStudents) > 0
    /\ Len(unregisteredStudents) = 0
    /\ currentSessionId # NoSession

C26_SuccessMeansPersisted ==
    [][(cmpPc = "unreg_students" /\ cmpPc' = "idle"
          /\ toast' = Toast("success", "compared")) =>
         \A e \in expected' :
            e.upload_session_id = cmpSession =>
                (e.is_registered <=> e.national_id \in cmpRegIds)]_vars

(***************************************************************************)
(* The registration form with every validated field                        *)
(***************************************************************************)
PhoneGood == <<"0", "9", "1", "2", "1", "2", "3", "4", "5", "6", "7">>
PhoneSpaced == <<"0", "9", "1", "2", " ", "1", "2", "3", "4", "5", "6", "7">>
PhoneIntl == <<"+", "9", "8", "9", "1", "2", "1", "2", "3", "4", "5", "6", "7">>
PhoneLandline == <<"0", "2", "1", "1", "2", "3", "4", "5", "6", "7", "8">>
PhoneBlank == <<" ">>

\* A form filled in correctly
GoodForm ==
    [national_id |-> IdA, first_name |-> <<"z">>, last_name |-> <<"y">>,
     father_name |-> <<"x">>, class_name |-> "702", father_phone |-> <<>>,
     mother_phone |-> <<>>, student_phone |-> <<>>]

\* What a registrant may submit: the good form, and forms with one field
\* changed
FormEntries ==
    {GoodForm,
     [GoodForm EXCEPT !.national_id = IdB],
     [GoodForm EXCEPT !.national_id = IdBad],
     [GoodForm EXCEPT !.national_id = <<>>],
     [GoodForm EXCEPT !.first_name = <<" ">>],
     [GoodForm EXCEPT !.last_name = <<>>],
     [GoodForm EXCEPT !.father_name = <<" ", " ">>],
     [GoodForm EXCEPT !.class_name = ""],
     [GoodForm EXCEPT !.father_phone = PhoneGood],
     [GoodForm EXCEPT !.father_phone = PhoneLandline],
     [GoodForm EXCEPT !.mother_phone = PhoneSpaced],
     [GoodForm EXCEPT !.mother_phone = PhoneBlank],
     [GoodForm EXCEPT !.student_phone = PhoneIntl],
     [GoodForm EXCEPT !.student_phone = Tail(PhoneGood), !.national_id = IdB],
     [GoodForm EXCEPT !.student_phone = Tail(Tail(PhoneGood))]}

NextForm == Register(OneRegistrant, FormEntries, StoreOutcomes)

SpecForm == Init /\ [][NextForm]_vars

NonBlank(s) == \E i \in DOMAIN s : s[i] # " "

\* C27: the form goes on to StudentService.createStudent only when first name,
\* last name and father name are non-blank, a class is selected, the national
\* id passes validateNationalId, every phone that was supplied passes
\* validatePhoneNumber and the existence check did not report the national id
\* as registered; a submission that fails validation creates no record and
\* keeps the form data; records are created by such calls only.
C27_CreateOnlyAfterValidation ==
    [][\A f \in Forms :
         LET d == formData[f]
         IN  /\ (formPc[f] # "inserting" /\ formPc'[f] = "inserting") =>
                  /\ NonBlank(d.first_name)
                  /\ NonBlank(d.last_name)
                  /\ NonBlank(d.father_name)
                  /\ d.class_name # ""
                  /\ validateNationalId(d.national_id)
                  /\ \A phone \in {d.father_phone, d.mother_phone, d.student_phone} :
                        phone = <<>> \/ validatePhoneNumber(phone)
                  /\ formExists'[f] \in {"false", "threw"}
                  /\ formExists'[f] = "false" => d.national_id \notin RegisteredNationalIds
             /\ formOutcome'[f] = "invalid" =>
                  /\ students' = students
                  /\ formData'[f] # EmptyForm
                  /\ formPc[f] = "checking" => formData'[f] = d
             /\ students' # students => \E g \in Forms : formPc[g] = "inserting"]_vars

\* createStudent about to be called for a form with a phone number supplied
C27_Witness ==
    /\ formPc[1] = "inserting"
    /\ formExists[1] = "false"
    /\ formData[1].mother_phone = PhoneSpaced
    /\ students # {}

\* C28: expected_students holds at most one record per national_id over all
\* batches; an upload neither deletes nor changes a record of another batch;
\* an upload whose rows would bring a second record with a national_id that is
\* stored already, or that occurs twice in the file, stores none of its rows.
C28_OneExpectedRecordPerIdentity ==
    [][/\ \A e1, e2 \in expected' : e1.national_id = e2.national_id => e1 = e2
       /\ (uplPc \in {"parse", "insert"} /\ uplPc' # uplPc) =>
            \A e \in expected :
                \/ e \in expected'
                \/ e.upload_session_id = IF uplPc = "parse" THEN nextSession ELSE uplSession
       /\ (/\ uplPc = "insert" /\ uplPc' = "idle"
           /\ \/ \E i, j \in DOMAIN uplStudents :
                    i # j /\ uplStudents[i].national_id = uplStudents[j].national_id
              \/ \E i \in DOMAIN uplStudents : \E e \in expected :
                    e.national_id = uplStudents[i].national_id) =>
            expected' = expected]_vars

\* An insert is pending whose rows repeat an identity of a stored batch
C28_Witness ==
    /\ uplPc = "insert"
    /\ \E i \in DOMAIN uplStudents : \E e \in expected :
          e.national_id = uplStudents[i].national_id /\ e.upload_session_id # uplSession

(***************************************************************************)
(* The busy flags: the tracking view, a registrant and a login page, each  *)
(* in a page of its own, with every pending call answered in the end       *)
(***************************************************************************)
\* one file with a valid row, one with no valid row
BusyFiles == { f \in Files : Len(f) = 1 /\ f[1].nationalId \in {IdB, IdBad} }

BusyAttempts == { a \in Attempts : a.username = "admin" }

InitBusy ==
    /\ vInput = <<>> /\ vCalled = FALSE /\ vResult = FALSE
    /\ InitStore /\ InitView /\ InitHandlers /\ InitForms
    /\ hostedInApp \in BOOLEAN
    /\ refreshTrigger = 0
    /\ now = 0
    /\ localStorage \in {Absent, Garbage}
    /\ storageFull = FALSE
    /\ pathname = "/login"
    /\ isAuthenticated = FALSE
    /\ isLoading = TRUE
    /\ user = NullUser
    /\ loginPc = "idle"
    /\ loginIsLoading = FALSE
    /\ loginArgs = NoArgs
    /\ loginReturned = "none"

UploadParsedBusy ==
    \E o \in StoreOutcomes : \E excelData \in BusyFiles : UploadParsedFile(o, excelData)

NextBusy ==
    \/ UploadStart
    \/ UploadParsedBusy
    \/ UploadInsert(StoreOutcomes)
    \/ CompareStart(StoreOutcomes)
    \/ UpdateGetStudents(StoreOutcomes)
    \/ UpdateRow(StoreOutcomes)
    \/ UnregGetStudents(StoreOutcomes)
    \/ Register(OneRegistrant, OneInput, StoreOutcomes)
    \/ checkAuthStatus
    \/ \E args \in BusyAttempts : LoginCall(args)
    \/ LoginResolves

\* every pending call is answered (by a result or by an error)
CallsReturn ==
    /\ WF_vars(UploadParsedBusy)
    /\ WF_vars(UploadInsert(StoreOutcomes))
    /\ WF_vars(UpdateGetStudents(StoreOutcomes))
    /\ WF_vars(UpdateRow(StoreOutcomes))
    /\ WF_vars(UnregGetStudents(StoreOutcomes))
    /\ WF_vars(\E f \in OneRegistrant : FormInserted(f, StoreOutcomes))
    /\ WF_vars(LoginResolves)
    /\ WF_vars(checkAuthStatus)

SpecBusy == InitBusy /\ [][NextBusy]_vars /\ CallsReturn

\* C30: every busy flag that was set is cleared in the end, whether the
\* operation succeeds or fails, provided its pending call returns: isUploading,
\* isComparing, isSubmitting, the login form's isLoading and the provider's
\* isLoading.
C30_BusyFlagsCleared ==
    /\ isUploading ~> ~isUploading
    /\ isComparing ~> ~isComparing
    /\ \A f \in OneRegistrant : isSubmitting[f] ~> ~isSubmitting[f]
    /\ loginIsLoading ~> ~loginIsLoading
    /\ isLoading ~> ~isLoading

\* An upload, a registration and a login pending at once
C30_Witness ==
    /\ isUploading /\ uplPc = "insert"
    /\ isSubmitting[1]
    /\ loginIsLoading
    /\ ~isLoading

====
